---- MODULE Spec2Model ----
(***************************************************************************)
(* Model of the BLE Current Time Service sketch, src/src/main.cpp, second  *)
(* revision (lines 353-815): the calendar clock (updateInternalTime), the  *)
(* Current-Time codec (writeCurrentTime / currentTimeWrittenHandler), the  *)
(* link handlers and the TaskScheduler callbacks.                          *)
(*                                                                         *)
(* Every task callback and every BLE event handler runs to completion on   *)
(* the single loop() thread, so each is one action.  The delay() calls     *)
(* inside the link handlers read no state; the time they take is part of   *)
(* the time that AdvanceMillis lets pass between two callbacks.            *)
(***************************************************************************)
EXTENDS Integers, Sequences, FiniteSets, TLC

VARIABLES
    currentDateTime,       \* DateTime currentDateTime            (line 386)
    lastTimeUpdateMillis,  \* unsigned long lastTimeUpdateMillis  (line 387)
    centralConnected,      \* bool centralConnected               (line 388)
    connectedCentral,      \* BLEDevice connectedCentral          (line 389)
    ledState,              \* bool ledState                       (line 390)
    ledPin,                \* output level of LED_PIN
    tLedBlinkEnabled,      \* enable flag of Task tLedBlink       (line 403)
    advertising,           \* whether the last BLE.advertise() succeeded
    millisNow,             \* the value millis() returns
    lastRun,               \* the callback or handler that ran last
    calls                  \* the library calls it issued, in order

clock == <<currentDateTime, lastTimeUpdateMillis>>
link  == <<centralConnected, connectedCentral, ledState, ledPin,
           tLedBlinkEnabled, advertising>>
vars  == <<currentDateTime, lastTimeUpdateMillis, centralConnected,
           connectedCentral, ledState, ledPin, tLedBlinkEnabled,
           advertising, millisNow, lastRun, calls>>

----------------------------------------------------------------------------
(* Bounds of the model.                                                    *)

\* millis() when setup() reaches line 770 (after its delay(1000)).
BootMillis == 1000
\* AdvanceMillis is enabled while millis() is at most BootMillis + MaxElapsed.
MaxElapsed == 2000
\* The amounts by which millis() grows between two callbacks: less than a
\* second, one second, and a gap long enough for second + elapsedSeconds to
\* exceed 255.
Deltas == {400, 1000, 200000}
\* The centrals that connect, disconnect and write.
Centrals == {"c1", "c2"}
\* A default-constructed BLEDevice.
NoDevice == "none"

\* Widths of the C types.  uint16_t and uint8_t values are held modulo 2^16
\* and 2^8.  unsigned long is 32 bits wide, as wide as the integers of the
\* model checker, so a millisecond counter value v is held as the integer
\* congruent to v modulo 2^32 that lies in -2^31 .. 2^31-1: the counter's
\* wrap from 2^32-1 to 0 is the step from -1 to 0.
U16(x) == x % 65536
U8(x) == x % 256


\* The difference without the wrap: 0 when a is below b as unsigned values,
\* as if the counter could not pass 2^32-1.
ulongDiffNoWrap(a, b) ==
    LET s == a - b IN
    IF (a >= 0 /\ b < 0) \/ s < 0
    THEN <<0, 0>>
    ELSE <<s \div 1000, s % 1000>>

\* The unsigned difference (a - b) modulo 2^32 of two counter values, as
\* <<quotient, remainder>> of its division by 1000.  2^32 = 4294967 * 1000 + 296.
ulongDiffBy1000(a, b) ==
    LET s == a - b IN
    IF s >= 0
    THEN <<s \div 1000, s % 1000>>
    ELSE <<4294967 + ((s + 296) \div 1000), (s + 296) % 1000>>

----------------------------------------------------------------------------
(* The calendar clock.                                                     *)

DateTime(y, mo, d, h, mi, s, dow) ==
    [year |-> y, month |-> mo, day |-> d, hour |-> h, minute |-> mi,
     second |-> s, dayOfWeek |-> dow]

\* daysInMonth with the leap year test reduced to year % 4 == 0.
daysInMonthEveryFourth(year, month) ==
    IF month = 4 \/ month = 6 \/ month = 9 \/ month = 11
    THEN 30
    ELSE IF month = 2
         THEN IF year % 4 = 0 THEN 29 ELSE 28
         ELSE 31


\* daysInMonth with November left out of the 30-day months.
daysInMonthNovember31(year, month) ==
    IF month = 4 \/ month = 6 \/ month = 9
    THEN 30
    ELSE IF month = 2
         THEN IF (year % 4 = 0 /\ year % 100 # 0) \/ (year % 400 = 0)
              THEN 29 ELSE 28
         ELSE 31

\* uint8_t daysInMonth(uint16_t year, uint8_t month)
daysInMonth(year, month) ==
    IF month = 4 \/ month = 6 \/ month = 9 \/ month = 11
    THEN 30
    ELSE IF month = 2
         THEN IF (year % 4 = 0 /\ year % 100 # 0) \/ (year % 400 = 0)
              THEN 29 ELSE 28
         ELSE 31

\* The day carry without the loop of lines 457-468.
carryMonthsMissing(dt) == dt


\* The carry taken only when the day is one past the end of the month.
carryMonthsOnePast(dt) ==
    IF dt.day = daysInMonth(dt.year, dt.month) + 1
    THEN IF dt.month + 1 > 12
         THEN [dt EXCEPT !.day = 1, !.month = 1, !.year = U16(dt.year + 1)]
         ELSE [dt EXCEPT !.day = 1, !.month = dt.month + 1]
    ELSE dt

\* The loop of lines 457-468: while day exceeds the month's length, take the
\* length off and step to the next month, wrapping 12 to 1 with year++.
RECURSIVE carryMonths(_)
carryMonths(dt) ==
    LET monthDays == daysInMonth(dt.year, dt.month) IN
    IF dt.day > monthDays
    THEN carryMonths(
           IF U8(dt.month + 1) > 12
           THEN [dt EXCEPT !.day = dt.day - monthDays, !.month = 1,
                           !.year = U16(dt.year + 1)]
           ELSE [dt EXCEPT !.day = dt.day - monthDays,
                           !.month = U8(dt.month + 1)])
    ELSE dt

\* Lines 450-469: the body of if (hour >= 24), hour already incremented.
carryDays(dt) ==
    LET daysElapsed == dt.hour \div 24 IN
    carryMonths([dt EXCEPT
        !.day = U8(dt.day + daysElapsed),
        !.hour = dt.hour % 24,
        !.dayOfWeek = ((dt.dayOfWeek - 1 + daysElapsed) % 7) + 1])

\* Lines 446-470: the body of if (minute >= 60), minute already incremented.
carryHours(dt) ==
    LET h == [dt EXCEPT !.hour = U8(dt.hour + dt.minute \div 60),
                        !.minute = dt.minute % 60] IN
    IF h.hour >= 24 THEN carryDays(h) ELSE h

\* The rollovers entered only when second exceeds 60.
carrySecondsAbove60(dt) ==
    IF dt.second > 60
    THEN LET m == [dt EXCEPT !.minute = U8(dt.minute + dt.second \div 60),
                             !.second = dt.second % 60] IN
         IF m.minute >= 60 THEN carryHours(m) ELSE m
    ELSE dt

\* Lines 442-471: the rollovers, second already incremented.  Each carry is
\* nested in the one before it, as in the source.
carrySeconds(dt) ==
    IF dt.second >= 60
    THEN LET m == [dt EXCEPT !.minute = U8(dt.minute + dt.second \div 60),
                             !.second = dt.second % 60] IN
         IF m.minute >= 60 THEN carryHours(m) ELSE m
    ELSE dt


\* updateInternalTime with lastTimeUpdateMillis set to millis(): the
\* sub-second remainder is dropped.
updateInternalTimeDropRemainder(dt, last, now) ==
    LET diff == ulongDiffBy1000(now, last)
        elapsedSeconds == diff[1]
    IN  IF elapsedSeconds >= 1
        THEN [dt   |-> carrySeconds(
                         [dt EXCEPT !.second = U8(dt.second + elapsedSeconds)]),
              last |-> now]
        ELSE [dt |-> dt, last |-> last]

\* void updateInternalTime(): the clock and lastTimeUpdateMillis after a call
\* made when millis() returns now.  second is a uint8_t, so the sum
\* second + elapsedSeconds is stored modulo 256.  lastTimeUpdateMillis grows
\* by elapsedSeconds * 1000 modulo 2^32, which leaves it at now minus the
\* remainder.
updateInternalTime(dt, last, now) ==
    LET diff == ulongDiffBy1000(now, last)
        elapsedSeconds == diff[1]
    IN  IF elapsedSeconds >= 1
        THEN [dt   |-> carrySeconds(
                         [dt EXCEPT !.second = U8(dt.second + elapsedSeconds)]),
              last |-> IF now >= last THEN last + elapsedSeconds * 1000
                                      ELSE now - diff[2]]
        ELSE [dt |-> dt, last |-> last]

----------------------------------------------------------------------------
(* The Current-Time codec.                                                 *)

\* The array with the two bytes of the year in the other order.
timeDataBigEndian(dt) ==
    <<(dt.year \div 256) % 256, dt.year % 256, dt.month, dt.day, dt.hour,
      dt.minute, dt.second, dt.dayOfWeek, 0, 1>>

\* The timeData array writeCurrentTime builds (lines 479-489).
timeData(dt) ==
    <<dt.year % 256, (dt.year \div 256) % 256, dt.month, dt.day, dt.hour,
      dt.minute, dt.second, dt.dayOfWeek, 0, 1>>

\* The parse with the high byte of the year left out.
parseTimeLowByte(data) ==
    DateTime(data[1], data[3], data[4], data[5], data[6], data[7], data[8])

\* Lines 600-606: the fields currentTimeWrittenHandler parses from a
\* 10-byte value.  Sequences count from 1: data[1] here is data[0] there, so
\* the last two bytes (fractions, adjust reason) are not read.
parseTime(data) ==
    DateTime(U16(data[1] + data[2] * 256), data[3], data[4], data[5],
             data[6], data[7], data[8])

\* The condition with the hour bound off by one.
basicValidationHour24(t) ==
    /\ t.month >= 1 /\ t.month <= 12
    /\ t.day >= 1 /\ t.day <= 31
    /\ t.hour <= 24 /\ t.minute <= 59 /\ t.second <= 59
    /\ t.dayOfWeek >= 1 /\ t.dayOfWeek <= 7


\* The condition with the day checked against the length of the month.
basicValidationDayOfMonth(t) ==
    /\ t.month >= 1 /\ t.month <= 12
    /\ t.day >= 1 /\ t.day <= daysInMonth(t.year, t.month)
    /\ t.hour <= 23 /\ t.minute <= 59 /\ t.second <= 59
    /\ t.dayOfWeek >= 1 /\ t.dayOfWeek <= 7

\* The condition of lines 611-613.
basicValidation(t) ==
    /\ t.month >= 1 /\ t.month <= 12
    /\ t.day >= 1 /\ t.day <= 31
    /\ t.hour <= 23 /\ t.minute <= 59 /\ t.second <= 59
    /\ t.dayOfWeek >= 1 /\ t.dayOfWeek <= 7

----------------------------------------------------------------------------
(* Library calls.  Each entry records the call, its data, and the link     *)
(* state at the moment of the call.                                        *)

Call(name, data, conn, central) ==
    [call |-> name, data |-> data, connected |-> conn, central |-> central]

\* Serial.println of a fixed message.
Log(msg, conn, central) == Call(msg, <<>>, conn, central)


\* BLE.advertise(), recorded with whether advertising was active when it was
\* called (1) or not (0).
advertise(active, conn, central) ==
    Call("BLE.advertise", <<IF active THEN 1 ELSE 0>>, conn, central)

\* BLE.stopAdvertise() (line 711) leaves advertising inactive, whatever it
\* was.
stopAdvertise(active) == FALSE

\* writeCurrentTime, writeLocalTimeInfo, writeRefTimeInfo (lines 477-522).
writeCurrentTime(dt, conn, central) ==
    Call("currentTimeChar.writeValue", timeData(dt), conn, central)
writeLocalTimeInfo(conn, central) ==
    Call("localTimeInfoChar.writeValue", <<32, 0>>, conn, central)
writeRefTimeInfo(conn, central) ==
    Call("refTimeInfoChar.writeValue", <<4, 254, 0, 0>>, conn, central)

IsCharWrite(c) ==
    c.call \in {"currentTimeChar.writeValue", "localTimeInfoChar.writeValue",
                "refTimeInfoChar.writeValue"}
CharWrites(cs) == SelectSeq(cs, IsCharWrite)

----------------------------------------------------------------------------
(* The state after setup() (lines 733-805).                                *)

Epoch == DateTime(2024, 1, 1, 0, 0, 0, 1)

\* The calls of setup() from line 772 on: the initial characteristic values
\* and the start of advertising; advertiseOk is what BLE.advertise() returns
\* at line 791.
setupCalls(advertiseOk) ==
    <<writeCurrentTime(Epoch, FALSE, NoDevice),
      writeLocalTimeInfo(FALSE, NoDevice),
      writeRefTimeInfo(FALSE, NoDevice),
      advertise(FALSE, FALSE, NoDevice),
      Log(IF advertiseOk THEN "Advertising started"
                         ELSE "Advertising failed to start!",
          FALSE, NoDevice)>>

Init ==
    /\ currentDateTime = Epoch
    /\ lastTimeUpdateMillis = BootMillis
    /\ millisNow = BootMillis
    /\ centralConnected = FALSE
    /\ connectedCentral = NoDevice
    /\ ledState = FALSE
    /\ ledPin = FALSE
    /\ tLedBlinkEnabled = TRUE
    /\ \E advertiseOk \in BOOLEAN :
          /\ advertising = advertiseOk
          /\ calls = setupCalls(advertiseOk)
    /\ lastRun = "setup"

----------------------------------------------------------------------------
(* Actions.                                                                *)

\* Time passes: millis() grows by d.
AdvanceMillis(d) ==
    /\ millisNow <= BootMillis + MaxElapsed
    /\ millisNow' = millisNow + d
    /\ lastRun' = "millis"
    /\ calls' = <<>>
    /\ UNCHANGED <<clock, link>>


\* The callback as a task that connect events disable together with
\* tLedBlink: it runs only while blinking is enabled.
updateInternalTimeCallbackWhileBlinking ==
    LET r == updateInternalTime(currentDateTime, lastTimeUpdateMillis,
                                millisNow) IN
    /\ tLedBlinkEnabled
    /\ currentDateTime' = r.dt
    /\ lastTimeUpdateMillis' = r.last
    /\ lastRun' = "updateInternalTimeCallback"
    /\ calls' = <<>>
    /\ UNCHANGED <<link, millisNow>>

\* void updateInternalTimeCallback() (lines 532-540), task tUpdateTime.
updateInternalTimeCallback ==
    LET r == updateInternalTime(currentDateTime, lastTimeUpdateMillis,
                                millisNow) IN
    /\ currentDateTime' = r.dt
    /\ lastTimeUpdateMillis' = r.last
    /\ lastRun' = "updateInternalTimeCallback"
    /\ calls' = <<>>
    /\ UNCHANGED <<link, millisNow>>

\* void printSystemTimeCallback() (lines 559-572), task tPrintTime.
printSystemTimeCallback ==
    LET r == updateInternalTime(currentDateTime, lastTimeUpdateMillis,
                                millisNow) IN
    /\ currentDateTime' = r.dt
    /\ lastTimeUpdateMillis' = r.last
    /\ lastRun' = "printSystemTimeCallback"
    /\ calls' = <<Log("System Time:", centralConnected, connectedCentral)>>
    /\ UNCHANGED <<link, millisNow>>


\* The callback with the characteristic written before the clock is advanced.
updateBleDataWriteFirst ==
    LET r == updateInternalTime(currentDateTime, lastTimeUpdateMillis,
                                millisNow) IN
    /\ lastRun' = "updateBleDataCallback"
    /\ IF centralConnected
       THEN /\ currentDateTime' = r.dt
            /\ lastTimeUpdateMillis' = r.last
            /\ calls' = <<writeCurrentTime(currentDateTime, centralConnected,
                                           connectedCentral)>>
       ELSE /\ UNCHANGED clock
            /\ calls' = <<>>
    /\ UNCHANGED <<link, millisNow>>

\* void updateBleDataCallback() (lines 542-551), task tUpdateBleData.
updateBleDataCallback ==
    LET r == updateInternalTime(currentDateTime, lastTimeUpdateMillis,
                                millisNow) IN
    /\ lastRun' = "updateBleDataCallback"
    /\ IF centralConnected
       THEN /\ currentDateTime' = r.dt
            /\ lastTimeUpdateMillis' = r.last
            /\ calls' = <<writeCurrentTime(r.dt, centralConnected,
                                           connectedCentral)>>
       ELSE /\ UNCHANGED clock
            /\ calls' = <<>>
    /\ UNCHANGED <<link, millisNow>>

\* void blinkLedCallback() (lines 526-530), task tLedBlink; the scheduler
\* runs it only while the task is enabled.
blinkLedCallback ==
    /\ tLedBlinkEnabled
    /\ ledState' = ~ledState
    /\ ledPin' = ~ledState
    /\ lastRun' = "blinkLedCallback"
    /\ calls' = <<Call("digitalWrite", <<IF ledState THEN 0 ELSE 1>>,
                       centralConnected, connectedCentral)>>
    /\ UNCHANGED <<clock, centralConnected, connectedCentral,
                   tLedBlinkEnabled, advertising, millisNow>>

\* The handler reading the first ten bytes of any value at least that long.
writtenHandlerAtLeast10(central, data) ==
    LET raw == Call("Raw Data Received", data, centralConnected,
                    connectedCentral) IN
    /\ lastRun' = "currentTimeWrittenHandler"
    /\ IF Len(data) >= 10
       THEN IF basicValidation(parseTime(data))
            THEN /\ currentDateTime' = parseTime(data)
                 /\ lastTimeUpdateMillis' = millisNow
                 /\ calls' = <<raw, Log("Internal time updated by client:",
                                        centralConnected, connectedCentral)>>
            ELSE /\ UNCHANGED clock
                 /\ calls' = <<raw, Log("Received invalid time data format.",
                                        centralConnected, connectedCentral)>>
       ELSE /\ UNCHANGED clock
            /\ calls' = <<Log("Received data with incorrect length: ",
                              centralConnected, connectedCentral), raw>>
    /\ UNCHANGED <<link, millisNow>>

\* void currentTimeWrittenHandler(central, characteristic) (lines 577-663),
\* run by BLE.poll() when a central has written data to currentTimeChar.
currentTimeWrittenHandler(central, data) ==
    LET raw == Call("Raw Data Received", data, centralConnected,
                    connectedCentral) IN
    /\ lastRun' = "currentTimeWrittenHandler"
    /\ IF Len(data) = 10
       THEN IF basicValidation(parseTime(data))
            THEN /\ currentDateTime' = parseTime(data)
                 /\ lastTimeUpdateMillis' = millisNow
                 /\ calls' = <<raw, Log("Internal time updated by client:",
                                        centralConnected, connectedCentral)>>
            ELSE /\ UNCHANGED clock
                 /\ calls' = <<raw, Log("Received invalid time data format.",
                                        centralConnected, connectedCentral)>>
       ELSE /\ UNCHANGED clock
            /\ calls' = <<Log("Received data with incorrect length: ",
                              centralConnected, connectedCentral), raw>>
    /\ UNCHANGED <<link, millisNow>>

\* The calls every connect event makes before the test of line 674.
connectPrologue(central) ==
    <<Call("Connected event for: ", <<central>>, centralConnected,
           connectedCentral),
      Call("digitalWrite", <<1>>, centralConnected, connectedCentral),
      Call("tLedBlink.disable", <<>>, centralConnected, connectedCentral)>>

\* The handler with the snapshot pushed before the link state is set.
connectHandlerPushFirst(central) ==
    /\ lastRun' = "blePeripheralConnectHandler"
    /\ ledPin' = TRUE
    /\ ledState' = TRUE
    /\ tLedBlinkEnabled' = FALSE
    /\ IF ~centralConnected
       THEN /\ centralConnected' = TRUE
            /\ connectedCentral' = central
            /\ calls' = connectPrologue(central) \o <<
                 writeCurrentTime(currentDateTime, centralConnected,
                                  connectedCentral),
                 writeLocalTimeInfo(centralConnected, connectedCentral),
                 writeRefTimeInfo(centralConnected, connectedCentral),
                 Log("Connection established.", TRUE, central),
                 Log("Initial characteristics sent.", TRUE, central)>>
       ELSE /\ UNCHANGED <<centralConnected, connectedCentral>>
            /\ calls' = connectPrologue(central) \o <<
                 Log("Already connected, ignoring duplicate connect event.",
                     centralConnected, connectedCentral)>>
    /\ UNCHANGED <<clock, advertising, millisNow>>

\* The handler without the test of line 674: every connect event records
\* the peer and pushes the snapshot.
connectHandlerNoGuard(central) ==
    /\ lastRun' = "blePeripheralConnectHandler"
    /\ ledPin' = TRUE
    /\ ledState' = TRUE
    /\ tLedBlinkEnabled' = FALSE
    /\ centralConnected' = TRUE
    /\ connectedCentral' = central
    /\ calls' = connectPrologue(central) \o <<
         Log("Connection established.", TRUE, central),
         writeCurrentTime(currentDateTime, TRUE, central),
         writeLocalTimeInfo(TRUE, central),
         writeRefTimeInfo(TRUE, central),
         Log("Initial characteristics sent.", TRUE, central)>>
    /\ UNCHANGED <<clock, advertising, millisNow>>


\* The handler with the clock advanced before the snapshot is written.
connectHandlerAdvances(central) ==
    LET r == updateInternalTime(currentDateTime, lastTimeUpdateMillis,
                                millisNow) IN
    /\ lastRun' = "blePeripheralConnectHandler"
    /\ ledPin' = TRUE
    /\ ledState' = TRUE
    /\ tLedBlinkEnabled' = FALSE
    /\ IF ~centralConnected
       THEN /\ centralConnected' = TRUE
            /\ connectedCentral' = central
            /\ currentDateTime' = r.dt
            /\ lastTimeUpdateMillis' = r.last
            /\ calls' = connectPrologue(central) \o <<
                 Log("Connection established.", TRUE, central),
                 writeCurrentTime(r.dt, TRUE, central),
                 writeLocalTimeInfo(TRUE, central),
                 writeRefTimeInfo(TRUE, central),
                 Log("Initial characteristics sent.", TRUE, central)>>
       ELSE /\ UNCHANGED <<centralConnected, connectedCentral, clock>>
            /\ calls' = connectPrologue(central) \o <<
                 Log("Already connected, ignoring duplicate connect event.",
                     centralConnected, connectedCentral)>>
    /\ UNCHANGED <<advertising, millisNow>>

\* void blePeripheralConnectHandler(central) (lines 665-694), run by
\* BLE.poll() on a BLEConnected event.
blePeripheralConnectHandler(central) ==
    /\ lastRun' = "blePeripheralConnectHandler"
    /\ ledPin' = TRUE
    /\ ledState' = TRUE
    /\ tLedBlinkEnabled' = FALSE
    /\ IF ~centralConnected
       THEN /\ centralConnected' = TRUE
            /\ connectedCentral' = central
            /\ calls' = connectPrologue(central) \o <<
                 Log("Connection established.", TRUE, central),
                 writeCurrentTime(currentDateTime, TRUE, central),
                 writeLocalTimeInfo(TRUE, central),
                 writeRefTimeInfo(TRUE, central),
                 Log("Initial characteristics sent.", TRUE, central)>>
       ELSE /\ UNCHANGED <<centralConnected, connectedCentral>>
            /\ calls' = connectPrologue(central) \o <<
                 Log("Already connected, ignoring duplicate connect event.",
                     centralConnected, connectedCentral)>>
    /\ UNCHANGED <<clock, advertising, millisNow>>

\* The calls every disconnect event makes before the test of line 704.
disconnectPrologue(central) ==
    <<Call("Disconnected event for: ", <<central>>, centralConnected,
           connectedCentral),
      Call("digitalWrite", <<0>>, centralConnected, connectedCentral)>>

\* The calls of lines 706-724 without the BLE.stopAdvertise() of line 711.
disconnectCallsNoStop(advertiseOk) ==
    <<Call("tLedBlink.enable", <<>>, FALSE, connectedCentral),
      Log("Connection terminated.", FALSE, connectedCentral),
      advertise(advertising, FALSE, connectedCentral),
      Log(IF advertiseOk THEN "Restarted advertising."
                         ELSE "Failed to restart advertising!",
          FALSE, connectedCentral)>>

\* The calls of lines 706-724, made when the link was connected.
disconnectCalls(advertiseOk) ==
    <<Call("tLedBlink.enable", <<>>, FALSE, connectedCentral),
      Log("Connection terminated.", FALSE, connectedCentral),
      Call("BLE.stopAdvertise", <<>>, FALSE, connectedCentral),
      advertise(stopAdvertise(advertising), FALSE, connectedCentral),
      Log(IF advertiseOk THEN "Restarted advertising."
                         ELSE "Failed to restart advertising!",
          FALSE, connectedCentral)>>


\* The handler without the tLedBlink.enable() of line 706.
disconnectHandlerNoEnable(central, advertiseOk) ==
    /\ lastRun' = "blePeripheralDisconnectHandler"
    /\ ledPin' = FALSE
    /\ ledState' = FALSE
    /\ IF centralConnected
       THEN /\ centralConnected' = FALSE
            /\ advertising' = advertiseOk
            /\ calls' = disconnectPrologue(central)
                          \o Tail(disconnectCalls(advertiseOk))
       ELSE /\ UNCHANGED <<centralConnected, advertising>>
            /\ calls' = disconnectPrologue(central) \o <<
                 Log("Ignoring disconnect event, was not connected.",
                     centralConnected, connectedCentral)>>
    /\ UNCHANGED <<clock, connectedCentral, millisNow, tLedBlinkEnabled>>

\* The handler without the test of line 704: every disconnect event
\* re-enables blinking and restarts advertising.
disconnectHandlerNoGuard(central, advertiseOk) ==
    /\ lastRun' = "blePeripheralDisconnectHandler"
    /\ ledPin' = FALSE
    /\ ledState' = FALSE
    /\ centralConnected' = FALSE
    /\ tLedBlinkEnabled' = TRUE
    /\ advertising' = advertiseOk
    /\ calls' = disconnectPrologue(central) \o disconnectCalls(advertiseOk)
    /\ UNCHANGED <<clock, connectedCentral, millisNow>>


\* The handler with a retry: a disconnect event that finds the link
\* disconnected and advertising stopped starts advertising again.
disconnectHandlerRetry(central, advertiseOk) ==
    /\ lastRun' = "blePeripheralDisconnectHandler"
    /\ ledPin' = FALSE
    /\ ledState' = FALSE
    /\ IF centralConnected
       THEN /\ centralConnected' = FALSE
            /\ tLedBlinkEnabled' = TRUE
            /\ advertising' = advertiseOk
            /\ calls' = disconnectPrologue(central)
                          \o disconnectCalls(advertiseOk)
       ELSE /\ UNCHANGED <<centralConnected, tLedBlinkEnabled>>
            /\ advertising' = (advertising \/ advertiseOk)
            /\ calls' = disconnectPrologue(central) \o
                 (IF advertising
                  THEN <<Log("Ignoring disconnect event, was not connected.",
                             centralConnected, connectedCentral)>>
                  ELSE <<advertise(advertising, centralConnected,
                                   connectedCentral)>>)
    /\ UNCHANGED <<clock, connectedCentral, millisNow>>

\* void blePeripheralDisconnectHandler(central) (lines 696-730), run by
\* BLE.poll() on a BLEDisconnected event.  advertiseOk is what BLE.advertise()
\* returns at line 716.
blePeripheralDisconnectHandler(central, advertiseOk) ==
    /\ lastRun' = "blePeripheralDisconnectHandler"
    /\ ledPin' = FALSE
    /\ ledState' = FALSE
    /\ IF centralConnected
       THEN /\ centralConnected' = FALSE
            /\ tLedBlinkEnabled' = TRUE
            /\ advertising' = advertiseOk
            /\ calls' = disconnectPrologue(central)
                          \o disconnectCalls(advertiseOk)
       ELSE /\ UNCHANGED <<centralConnected, tLedBlinkEnabled, advertising>>
            /\ calls' = disconnectPrologue(central) \o <<
                 Log("Ignoring disconnect event, was not connected.",
                     centralConnected, connectedCentral)>>
    /\ UNCHANGED <<clock, connectedCentral, millisNow>>

----------------------------------------------------------------------------
(* The whole sketch: the tasks of lines 403-407 and the events BLE.poll()   *)
(* delivers (blePollCallback, line 553), in any order.                      *)

\* A written value: the ten bytes of a date and time, or any other bytes.
Bytes(y, mo, d, h, mi, s, dow) ==
    <<y % 256, y \div 256, mo, d, h, mi, s, dow, 0, 0>>

\* The values centrals write in Spec.
WrittenValues ==
    { Bytes(2023, 2, 28, 23, 59, 59, 2),
      Bytes(2024, 2, 28, 23, 59, 58, 3),
      Bytes(2024, 12, 31, 23, 59, 59, 7),
      Bytes(2024, 4, 31, 23, 59, 59, 3),
      Bytes(2024, 13, 1, 0, 0, 0, 1),
      Bytes(2024, 1, 1, 24, 0, 0, 1),
      <<232, 7, 1, 1, 0, 0, 0, 1, 0>>,
      <<232, 7, 1, 1, 0, 0, 0, 1, 0, 0, 0>> }

Next ==
    \/ \E d \in Deltas : AdvanceMillis(d)
    \/ updateInternalTimeCallback
    \/ printSystemTimeCallback
    \/ updateBleDataCallback
    \/ blinkLedCallback
    \/ \E c \in Centrals, data \in WrittenValues :
          currentTimeWrittenHandler(c, data)
    \/ \E c \in Centrals : blePeripheralConnectHandler(c)
    \/ \E c \in Centrals, ok \in BOOLEAN :
          blePeripheralDisconnectHandler(c, ok)

Spec == Init /\ [][Next]_vars

----------------------------------------------------------------------------
(* The calendar alone, from any date an accepted write can set: time       *)
(* passes and tUpdateTime runs.                                             *)

CalendarYears == {2023, 2024, 2000, 2100}
CalendarDays == {1, 15, 27, 28, 29, 30, 31}
CalendarTimes == {<<23, 59, 59>>, <<23, 59, 58>>}
CalendarDaysOfWeek == {1, 4, 7}

InitCalendar ==
    /\ \E y \in CalendarYears, mo \in 1..12, d \in CalendarDays,
          t \in CalendarTimes, dow \in CalendarDaysOfWeek :
          currentDateTime = DateTime(y, mo, d, t[1], t[2], t[3], dow)
    /\ lastTimeUpdateMillis = BootMillis
    /\ millisNow = BootMillis
    /\ centralConnected = FALSE
    /\ connectedCentral = NoDevice
    /\ ledState = FALSE
    /\ ledPin = FALSE
    /\ tLedBlinkEnabled = TRUE
    /\ advertising = TRUE
    /\ lastRun = "setup"
    /\ calls = <<>>

NextCalendar ==
    \/ \E d \in Deltas : AdvanceMillis(d)
    \/ updateInternalTimeCallback

CalendarSpec == InitCalendar /\ [][NextCalendar]_vars

----------------------------------------------------------------------------
(* The clock under remote writes, from the state after setup(): time       *)
(* passes, tUpdateTime runs, a central writes.                              *)

\* Written values in which one field at a time is out of range, values of
\* the wrong length, and values that are accepted.
OutOfRangeValues ==
    { Bytes(2024, mo, 15, 12, 30, 30, 4) : mo \in {0, 13, 255} }
    \cup { Bytes(2024, 6, d, 12, 30, 30, 4) : d \in {0, 32, 255} }
    \cup { Bytes(2024, 6, 15, h, 30, 30, 4) : h \in {24, 255} }
    \cup { Bytes(2024, 6, 15, 12, mi, 30, 4) : mi \in {60, 255} }
    \cup { Bytes(2024, 6, 15, 12, 30, s, 4) : s \in {60, 255} }
    \cup { Bytes(2024, 6, 15, 12, 30, 30, dow) : dow \in {0, 8, 255} }
    \cup { Bytes(2024, 13, 32, 24, 60, 60, 8) }
WrongLengthValues ==
    { SubSeq(Bytes(2024, 6, 15, 12, 30, 30, 4), 1, n) : n \in {0, 1, 9} }
    \cup { Bytes(2024, 6, 15, 12, 30, 30, 4) \o <<0>> }
AcceptedValues ==
    { Bytes(2025, 6, 15, 12, 30, 30, 4), Bytes(2024, 2, 29, 23, 59, 59, 4),
      Bytes(65535, 12, 31, 23, 59, 59, 1) }
\* Values with every field in range and a day the month does not have.
ImpossibleDates ==
    { Bytes(2024, 4, 31, 12, 30, 30, 3), Bytes(2023, 2, 30, 12, 30, 30, 4),
      Bytes(2023, 2, 29, 12, 30, 30, 3) }

NextWrite ==
    \/ \E d \in Deltas : AdvanceMillis(d)
    \/ updateInternalTimeCallback
    \/ \E data \in OutOfRangeValues \cup WrongLengthValues \cup AcceptedValues
                     \cup ImpossibleDates :
          currentTimeWrittenHandler("c1", data)

WriteSpec == Init /\ [][NextWrite]_vars

----------------------------------------------------------------------------
(* Properties of the link handlers, checked under Spec.                    *)

HasCall(cs, name) == \E i \in 1..Len(cs) : cs[i].call = name

\* The full snapshot, as pushed once to a recorded peer.
Snapshot(dt, central) ==
    <<writeCurrentTime(dt, TRUE, central), writeLocalTimeInfo(TRUE, central),
      writeRefTimeInfo(TRUE, central)>>

\* C1: a connect event handled while centralConnected is false sets it to
\* true, records the event's central, and writes Current Time, Local Time
\* Info and Reference Time Info once each, in that order, every write issued
\* with centralConnected already true and the peer already recorded.
C1_ConnectPushesSnapshotOnce ==
    [][(lastRun' = "blePeripheralConnectHandler" /\ ~centralConnected)
         => /\ centralConnected'
            /\ connectedCentral' \in Centrals
            /\ calls'[1].data = <<connectedCentral'>>
            /\ CharWrites(calls')
                 = Snapshot(currentDateTime', connectedCentral')]_vars

\* C1 witness: a connect that follows an earlier connection (the handler was
\* entered disconnected with c1 still recorded) has pushed the snapshot to c2.
C1_Witness ==
    /\ lastRun = "blePeripheralConnectHandler"
    /\ calls[1].connected = FALSE
    /\ calls[1].central = "c1"
    /\ centralConnected
    /\ connectedCentral = "c2"
    /\ CharWrites(calls) = Snapshot(currentDateTime, "c2")

\* C2: a connect event handled while centralConnected is true leaves
\* centralConnected, connectedCentral, ledState, the LED output and the
\* enablement of tLedBlink as they were, and writes no characteristic.
C2_DuplicateConnectIgnored ==
    [][(lastRun' = "blePeripheralConnectHandler" /\ centralConnected)
         => /\ UNCHANGED <<centralConnected, connectedCentral, ledState,
                           ledPin, tLedBlinkEnabled>>
            /\ CharWrites(calls') = <<>>]_vars

\* C2 witness: a connect event naming c2 was ignored while c1 is connected.
C2_Witness ==
    /\ lastRun = "blePeripheralConnectHandler"
    /\ calls[1].connected = TRUE
    /\ calls[1].data = <<"c2">>
    /\ connectedCentral = "c1"
    /\ HasCall(calls, "Already connected, ignoring duplicate connect event.")

\* C3: a disconnect event handled while centralConnected is false leaves it
\* false and calls neither BLE.stopAdvertise nor BLE.advertise.
C3_DisconnectWhileDisconnected ==
    [][(lastRun' = "blePeripheralDisconnectHandler" /\ ~centralConnected)
         => /\ ~centralConnected'
            /\ ~HasCall(calls', "BLE.stopAdvertise")
            /\ ~HasCall(calls', "BLE.advertise")]_vars

\* C3 witness: a disconnect event was handled while disconnected.
C3_Witness ==
    /\ lastRun = "blePeripheralDisconnectHandler"
    /\ calls[1].connected = FALSE
    /\ ~centralConnected
    /\ HasCall(calls, "Ignoring disconnect event, was not connected.")

----------------------------------------------------------------------------
(* The Gregorian calendar, as the reference the clock is compared with.    *)

GregorianLeap(y) == (y % 4 = 0 /\ y % 100 # 0) \/ y % 400 = 0

GregorianLength(y, mo) ==
    CASE mo \in {1, 3, 5, 7, 8, 10, 12} -> 31
      [] mo \in {4, 6, 9, 11} -> 30
      [] mo = 2 -> IF GregorianLeap(y) THEN 29 ELSE 28

\* A date and time of the calendar, in the year range the clock is meant for.
ValidDateTime(dt) ==
    /\ dt.year \in 1..9999
    /\ dt.month \in 1..12
    /\ dt.day \in 1..GregorianLength(dt.year, dt.month)
    /\ dt.hour \in 0..23 /\ dt.minute \in 0..59 /\ dt.second \in 0..59
    /\ dt.dayOfWeek \in 1..7

NextDay(dt) ==
    LET dow == IF dt.dayOfWeek = 7 THEN 1 ELSE dt.dayOfWeek + 1 IN
    IF dt.day < GregorianLength(dt.year, dt.month)
    THEN [dt EXCEPT !.day = dt.day + 1, !.dayOfWeek = dow]
    ELSE IF dt.month < 12
         THEN [dt EXCEPT !.day = 1, !.month = dt.month + 1, !.dayOfWeek = dow]
         ELSE [dt EXCEPT !.day = 1, !.month = 1, !.year = dt.year + 1,
                         !.dayOfWeek = dow]

RECURSIVE AddDays(_, _)
AddDays(dt, n) == IF n = 0 THEN dt ELSE AddDays(NextDay(dt), n - 1)

\* The date and time n seconds after dt.
AddSeconds(dt, n) ==
    LET total == dt.hour * 3600 + dt.minute * 60 + dt.second + n IN
    AddDays([dt EXCEPT !.hour = (total \div 3600) % 24,
                       !.minute = (total \div 60) % 60,
                       !.second = total % 60],
            total \div 86400)

----------------------------------------------------------------------------
(* Properties of remote writes, checked under WriteSpec.                   *)

\* The value the handler printed after "Raw Data Received".
RawData(cs) ==
    cs[CHOOSE i \in 1..Len(cs) : cs[i].call = "Raw Data Received"].data

\* A 10-byte value with at least one field out of range.
OutOfRange(data) ==
    /\ Len(data) = 10
    /\ \/ data[3] \notin 1..12
       \/ data[4] \notin 1..31
       \/ data[5] > 23
       \/ data[6] > 59
       \/ data[7] > 59
       \/ data[8] \notin 1..7

WrittenStep == lastRun' = "currentTimeWrittenHandler"

\* C4: a write of 10 bytes with any field out of range leaves all seven
\* fields of currentDateTime and lastTimeUpdateMillis as they were.
C4_OutOfRangeWriteLeavesClock ==
    [][(WrittenStep /\ OutOfRange(RawData(calls'))) => UNCHANGED clock]_vars

\* C4 witness: a value with month 13 was rejected after the clock had been
\* set by an earlier write.
C4_Witness ==
    /\ lastRun = "currentTimeWrittenHandler"
    /\ HasCall(calls, "Received invalid time data format.")
    /\ RawData(calls)[3] = 13
    /\ currentDateTime.year = 2025

\* C5: a write whose length is not 10 leaves currentDateTime and
\* lastTimeUpdateMillis as they were.
C5_WrongLengthWriteLeavesClock ==
    [][(WrittenStep /\ Len(RawData(calls')) # 10) => UNCHANGED clock]_vars

\* C5 witness: an 11-byte value was rejected.
C5_Witness ==
    /\ lastRun = "currentTimeWrittenHandler"
    /\ HasCall(calls, "Received data with incorrect length: ")
    /\ Len(RawData(calls)) = 11
    /\ currentDateTime = Epoch

\* C6: after an accepted write at time t the clock holds the written fields
\* and lastTimeUpdateMillis is t, and a next updateInternalTime at t + d
\* yields the written date and time plus floor(d / 1000) seconds.
C6_WriteRebasesClock ==
    (lastRun = "currentTimeWrittenHandler"
       /\ HasCall(calls, "Internal time updated by client:"))
    => /\ currentDateTime = parseTime(RawData(calls))
       /\ lastTimeUpdateMillis = millisNow
       /\ ValidDateTime(currentDateTime)
            => \A d \in Deltas \cup {0} :
                 updateInternalTime(currentDateTime, lastTimeUpdateMillis,
                                    millisNow + d).dt
                   = AddSeconds(currentDateTime, d \div 1000)

\* The part of C6 that does not reach the uint8_t overflow of second: the
\* clock holds the written fields, lastTimeUpdateMillis is t, and the next
\* call adds floor(d / 1000) seconds whenever second + that stays below 256.
C6_RebaseWithoutOverflow ==
    (lastRun = "currentTimeWrittenHandler"
       /\ HasCall(calls, "Internal time updated by client:"))
    => /\ currentDateTime = parseTime(RawData(calls))
       /\ lastTimeUpdateMillis = millisNow
       /\ ValidDateTime(currentDateTime)
            => \A d \in Deltas \cup {0} :
                 (currentDateTime.second + d \div 1000 < 256)
                 => updateInternalTime(currentDateTime, lastTimeUpdateMillis,
                                       millisNow + d).dt
                      = AddSeconds(currentDateTime, d \div 1000)

----------------------------------------------------------------------------
(* Properties of the calendar, checked under CalendarSpec.                 *)

TickStep == lastRun' = "updateInternalTimeCallback"

\* C7: a call of updateInternalTime made now, followed by a call d
\* milliseconds later, leaves the same currentDateTime and the same
\* lastTimeUpdateMillis as the later call alone: splitting an elapsed time
\* over several calls changes nothing.
C7_SplitCallsAgree ==
    [][TickStep
         => \A d \in Deltas \cup {0} :
              updateInternalTime(currentDateTime', lastTimeUpdateMillis', millisNow' + d)
                = updateInternalTime(currentDateTime, lastTimeUpdateMillis, millisNow + d)
      ]_vars

\* The same, for elapsed times that keep second + elapsedSeconds below 256.
C7_SplitCallsAgreeWithoutOverflow ==
    [][TickStep
         => \A d \in Deltas \cup {0} :
              (currentDateTime.second
                 + ulongDiffBy1000(millisNow + d, lastTimeUpdateMillis)[1]
                 < 256)
              => updateInternalTime(currentDateTime', lastTimeUpdateMillis',
                       millisNow' + d)
                   = updateInternalTime(currentDateTime, lastTimeUpdateMillis,
                           millisNow + d)]_vars

\* C8: from a valid date at 23:59:59, a call with exactly one whole second
\* elapsed yields 00:00:00 of the next Gregorian day, the day of week one
\* further (7 to 1).
C8_MidnightRollover ==
    [][(/\ TickStep
        /\ ValidDateTime(currentDateTime)
        /\ currentDateTime.hour = 23
        /\ currentDateTime.minute = 59
        /\ currentDateTime.second = 59
        /\ ulongDiffBy1000(millisNow, lastTimeUpdateMillis)[1] = 1)
         => currentDateTime'
              = NextDay([currentDateTime EXCEPT !.hour = 0, !.minute = 0,
                                                !.second = 0])]_vars

\* C8 witness: the call has rolled 2100-12-31 23:59:59, a Sunday in the
\* clock, over to 2101-01-01 00:00:00 with day of week 1.
C8_Witness ==
    /\ lastRun = "updateInternalTimeCallback"
    /\ currentDateTime = DateTime(2101, 1, 1, 0, 0, 0, 1)

----------------------------------------------------------------------------
(* Invariants of the clock at rest, checked under Spec.                    *)

FieldsInRange(dt) ==
    /\ dt.month \in 1..12
    /\ dt.day >= 1
    /\ dt.hour \in 0..23
    /\ dt.minute \in 0..59
    /\ dt.second \in 0..59
    /\ dt.dayOfWeek \in 1..7

\* C9: between callbacks the clock has month in 1..12, day >= 1, hour <= 23,
\* minute <= 59, second <= 59 and day of week in 1..7, whatever the times of
\* the calls and the writes received; so has every value written to
\* currentTimeChar.
C9_FieldsInRange ==
    /\ FieldsInRange(currentDateTime)
    /\ \A i \in 1..Len(calls) :
         calls[i].call = "currentTimeChar.writeValue"
           => /\ Len(calls[i].data) = 10
              /\ FieldsInRange(parseTime(calls[i].data))

\* C9 witness: the periodic push has written the clock after the write of
\* 2023-02-28 23:59:59 and a gap of 200 s, over which second + elapsedSeconds
\* exceeded 255 and second came out as 3.
C9_Witness ==
    /\ lastRun = "updateBleDataCallback"
    /\ HasCall(calls, "currentTimeChar.writeValue")
    /\ currentDateTime = DateTime(2023, 2, 28, 23, 59, 3, 2)

DayWithinMonth(dt) == dt.day <= daysInMonth(dt.year, dt.month)

\* C10 as stated: between callbacks day <= daysInMonth(year, month), also
\* after an accepted write.
C10_DayWithinMonthAlways == DayWithinMonth(currentDateTime)

AcceptedWriteStep ==
    /\ lastRun' = "currentTimeWrittenHandler"
    /\ HasCall(calls', "Internal time updated by client:")

\* C10 as amended: day <= daysInMonth(year, month) holds after setup, every
\* callback and handler other than an accepted write keeps it, and an
\* accepted write leaves it true when the written day is at most
\* daysInMonth of the written year and month.
C10_DayWithinMonthKept ==
    /\ DayWithinMonth(currentDateTime)
    /\ [][(IF AcceptedWriteStep
           THEN DayWithinMonth(parseTime(RawData(calls')))
           ELSE DayWithinMonth(currentDateTime))
            => DayWithinMonth(currentDateTime')]_vars

\* C10 witness: the clock went from the written 2023-02-28 23:59:59 to
\* 2023-03-01 00:00:00.
C10_Witness ==
    /\ lastRun \in {"updateInternalTimeCallback", "printSystemTimeCallback",
                    "updateBleDataCallback"}
    /\ currentDateTime = DateTime(2023, 3, 1, 0, 0, 0, 3)

----------------------------------------------------------------------------
(* The codec, from any clock value: a central connects, tUpdateBleData     *)
(* pushes the clock, and the central writes back the value it was sent.    *)

CodecYears == {0, 255, 256, 2024, 65535}
CodecMonths == {1, 12}
CodecDays == {1, 31}
CodecTimes == {<<0, 0, 0>>, <<23, 59, 59>>}
CodecDaysOfWeek == {1, 7}

InitCodec ==
    /\ \E y \in CodecYears, mo \in CodecMonths, d \in CodecDays,
          t \in CodecTimes, dow \in CodecDaysOfWeek :
          currentDateTime = DateTime(y, mo, d, t[1], t[2], t[3], dow)
    /\ lastTimeUpdateMillis = BootMillis
    /\ millisNow = BootMillis
    /\ centralConnected = FALSE
    /\ connectedCentral = NoDevice
    /\ ledState = FALSE
    /\ ledPin = FALSE
    /\ tLedBlinkEnabled = TRUE
    /\ advertising = TRUE
    /\ lastRun = "setup"
    /\ calls = <<>>

NextCodec ==
    \/ \E d \in Deltas : AdvanceMillis(d)
    \/ blePeripheralConnectHandler("c1")
    \/ updateBleDataCallback
    \/ \E i \in 1..Len(calls) :
          /\ calls[i].call = "currentTimeChar.writeValue"
          /\ currentTimeWrittenHandler("c1", calls[i].data)

CodecSpec == InitCodec /\ [][NextCodec]_vars

\* The value last written to currentTimeChar by the handler that just ran.
PushedValue(cs) ==
    cs[CHOOSE i \in 1..Len(cs) : cs[i].call = "currentTimeChar.writeValue"].data

\* The ranges of lines 611-613, and the range of a uint16_t year.
WritableDateTime(dt) ==
    /\ dt.year \in 0..65535
    /\ FieldsInRange(dt)
    /\ dt.day <= 31

\* C11: when the clock has every field in range and the 10 bytes that
\* writeCurrentTime has just produced from it are written back, the handler
\* accepts them and the decoded year, month, day, hour, minute, second and
\* day of week are those of the clock that was encoded.
C11_RoundTrip ==
    [][(/\ WrittenStep
        /\ HasCall(calls, "currentTimeChar.writeValue")
        /\ WritableDateTime(currentDateTime)
        /\ RawData(calls') = PushedValue(calls))
         => /\ Len(PushedValue(calls)) = 10
            /\ HasCall(calls', "Internal time updated by client:")
            /\ currentDateTime' = currentDateTime]_vars

\* C11 witness: the encoding of a clock in year 256 (low byte 0, high byte 1,
\* adjust reason 1) was written back and accepted.
C11_Witness ==
    /\ lastRun = "currentTimeWrittenHandler"
    /\ HasCall(calls, "Internal time updated by client:")
    /\ RawData(calls)[1] = 0
    /\ RawData(calls)[2] = 1
    /\ RawData(calls)[10] = 1
    /\ currentDateTime.year = 256

\* C12: every value written to currentTimeChar has exactly 10 bytes: the
\* year modulo 256, the year divided by 256, then month, day, hour, minute,
\* second and day of week of the clock, then 0; for every year of 0..65535.
C12_ByteLayout ==
    /\ currentDateTime.year \in 0..65535
    /\ \A i \in 1..Len(calls) :
          calls[i].call = "currentTimeChar.writeValue"
            => /\ Len(calls[i].data) = 10
               /\ SubSeq(calls[i].data, 1, 9)
                    = <<currentDateTime.year % 256,
                        currentDateTime.year \div 256,
                        currentDateTime.month, currentDateTime.day,
                        currentDateTime.hour, currentDateTime.minute,
                        currentDateTime.second, currentDateTime.dayOfWeek, 0>>

\* C12 witness: tUpdateBleData has written the clock of 31 December 65535,
\* whose year has both bytes 255.
C12_Witness ==
    /\ lastRun = "updateBleDataCallback"
    /\ HasCall(calls, "currentTimeChar.writeValue")
    /\ currentDateTime.year = 65535
    /\ PushedValue(calls)[1] = 255
    /\ PushedValue(calls)[2] = 255
    /\ PushedValue(calls)[3] = 12

----------------------------------------------------------------------------
(* Properties of the periodic push, checked under Spec.                    *)

\* C13: a run of updateBleDataCallback writes a characteristic exactly when
\* centralConnected is true; it then writes currentTimeChar once, after it
\* has applied updateInternalTime, and the value written decodes to the
\* clock as advanced.  While disconnected it writes nothing.
C13_PushOnlyWhenConnected ==
    [][lastRun' = "updateBleDataCallback"
         => IF centralConnected
            THEN /\ Len(CharWrites(calls')) = 1
                 /\ CharWrites(calls')[1].call = "currentTimeChar.writeValue"
                 /\ currentDateTime'
                      = updateInternalTime(currentDateTime,
                                           lastTimeUpdateMillis, millisNow).dt
                 /\ parseTime(PushedValue(calls')) = currentDateTime'
            ELSE CharWrites(calls') = <<>>]_vars

\* C13 witness: connected, tUpdateBleData ran 1000 ms after boot and wrote
\* the clock one second after the epoch.
C13_Witness ==
    /\ lastRun = "updateBleDataCallback"
    /\ centralConnected
    /\ lastTimeUpdateMillis = BootMillis + 1000
    /\ currentDateTime = DateTime(2024, 1, 1, 0, 0, 1, 1)
    /\ PushedValue(calls)[7] = 1

\* C14: after any sequence of connect and disconnect events, duplicates
\* included, tLedBlink is enabled exactly when centralConnected is false;
\* blinkLedCallback therefore never runs while connected.
C14_BlinkEnabledIffDisconnected ==
    /\ tLedBlinkEnabled <=> ~centralConnected
    /\ lastRun = "blinkLedCallback" => ~centralConnected

\* C14 witness: after the connection of c1 has ended, a further disconnect
\* event naming c2 was ignored and blinking is enabled.
C14_Witness ==
    /\ lastRun = "blePeripheralDisconnectHandler"
    /\ HasCall(calls, "Ignoring disconnect event, was not connected.")
    /\ connectedCentral = "c1"
    /\ calls[1].data = <<"c2">>
    /\ tLedBlinkEnabled

----------------------------------------------------------------------------
(* Properties of advertising, checked under Spec.                          *)

\* The position of the first call of the given name.
CallIndex(cs, name) == CHOOSE i \in 1..Len(cs) : cs[i].call = name

\* C15: a disconnect event handled while connected calls BLE.stopAdvertise
\* and then BLE.advertise, in that order; and no BLE.advertise, in setup or
\* in a handler, is called while advertising is active.
C15_StopBeforeRestart ==
    /\ (lastRun = "blePeripheralDisconnectHandler" /\ calls[1].connected)
         => /\ HasCall(calls, "BLE.stopAdvertise")
            /\ HasCall(calls, "BLE.advertise")
            /\ CallIndex(calls, "BLE.stopAdvertise")
                 < CallIndex(calls, "BLE.advertise")
    /\ \A i \in 1..Len(calls) :
          calls[i].call = "BLE.advertise" => calls[i].data = <<0>>

\* C15 witness: the connection of c2 has ended and advertising was restarted
\* with success.
C15_Witness ==
    /\ lastRun = "blePeripheralDisconnectHandler"
    /\ calls[1].connected
    /\ connectedCentral = "c2"
    /\ HasCall(calls, "Restarted advertising.")
    /\ advertising

\* A disconnect event handled while connected.
ConnectionEndsStep ==
    /\ lastRun' = "blePeripheralDisconnectHandler"
    /\ centralConnected
    /\ ~centralConnected'

\* C16: when BLE.advertise fails in a disconnect event handled while
\* connected, the failure is logged, centralConnected still becomes false
\* and tLedBlink is enabled again; and no callback or handler calls
\* BLE.advertise, or turns advertising on, except a disconnect event handled
\* while connected: a failed restart is not retried.
C16_FailedRestartNotRetried ==
    [][/\ (lastRun' = "blePeripheralDisconnectHandler" /\ centralConnected
             /\ ~advertising')
          => /\ HasCall(calls', "Failed to restart advertising!")
             /\ ~centralConnected'
             /\ tLedBlinkEnabled'
       /\ (HasCall(calls', "BLE.advertise") \/ (~advertising /\ advertising'))
          => ConnectionEndsStep]_vars

\* C16 witness: after a connection ended with a failed restart, tLedBlink has
\* run again and advertising is still off.
C16_Witness ==
    /\ lastRun = "blinkLedCallback"
    /\ ~centralConnected
    /\ connectedCentral \in Centrals
    /\ ~advertising

----------------------------------------------------------------------------
(* Remote writes and the link state, checked under Spec.                   *)

\* C17: a write handled while centralConnected is false leaves
\* currentDateTime and lastTimeUpdateMillis as they were.
C17_WriteOnlyWhileConnected ==
    [][(WrittenStep /\ ~centralConnected) => UNCHANGED clock]_vars

\* C18: a write of 10 bytes with month in 1..12, day in 1..31, hour <= 23,
\* minute <= 59, second <= 59 and day of week in 1..7 is accepted and sets the
\* clock to the written fields, also when the day is beyond the last day of
\* the written month: 31 April, 30 February.
C18_DayNotCrossValidated ==
    [][(WrittenStep /\ Len(RawData(calls')) = 10
          /\ ~OutOfRange(RawData(calls')))
         => /\ HasCall(calls', "Internal time updated by client:")
            /\ currentDateTime'.month = RawData(calls')[3]
            /\ currentDateTime'.day = RawData(calls')[4]
            /\ currentDateTime'.year
                 = RawData(calls')[1] + 256 * RawData(calls')[2]
            /\ lastTimeUpdateMillis' = millisNow]_vars

\* C18 witness: a write of 30 February 2023 was accepted and is on the clock.
C18_Witness ==
    /\ lastRun = "currentTimeWrittenHandler"
    /\ HasCall(calls, "Internal time updated by client:")
    /\ currentDateTime.year = 2023
    /\ currentDateTime.month = 2
    /\ currentDateTime.day = 30
    /\ currentDateTime.day > GregorianLength(2023, 2)

----------------------------------------------------------------------------
(* Properties of the calendar arithmetic, checked under CalendarSpec.      *)

\* C19: for the year of the clock and every month 1..12, daysInMonth returns
\* the Gregorian length: 31 for months 1, 3, 5, 7, 8, 10, 12, 30 for months
\* 4, 6, 9, 11, and for month 2, 29 in a year divisible by 4 and not by 100,
\* or divisible by 400, else 28.
C19_DaysInMonthGregorian ==
    \A mo \in 1..12 :
       daysInMonth(currentDateTime.year, mo)
         = GregorianLength(currentDateTime.year, mo)

\* C19 witness: tUpdateTime has carried the clock out of February 2100, a
\* century year that is not a leap year.
C19_Witness ==
    /\ lastRun = "updateInternalTimeCallback"
    /\ currentDateTime = DateTime(2100, 3, 1, 0, 0, 0, 1)
    /\ lastTimeUpdateMillis = BootMillis + 1000

\* The whole seconds updateInternalTime finds elapsed; millis() has not
\* wrapped in CalendarSpec.
ElapsedWhole == (millisNow - lastTimeUpdateMillis) \div 1000

\* C20: a call of updateInternalTime with elapsedWhole >= 1 on a valid date
\* and time leaves the date, time of day and day of week that the Gregorian
\* calendar gives for elapsedWhole seconds later.
C20_SingleCallMatchesGregorian ==
    [][(TickStep /\ ValidDateTime(currentDateTime) /\ ElapsedWhole >= 1)
         => currentDateTime' = AddSeconds(currentDateTime, ElapsedWhole)]_vars

\* The same, for calls that keep second + elapsedWhole below 256.
C20_SingleCallWithoutOverflow ==
    [][(TickStep /\ ValidDateTime(currentDateTime) /\ ElapsedWhole >= 1
          /\ currentDateTime.second + ElapsedWhole < 256)
         => currentDateTime' = AddSeconds(currentDateTime, ElapsedWhole)]_vars

\* The clock as the tuple (year, month, day, hour, minute, second), and the
\* lexicographic order on such tuples.
ClockTuple(dt) == <<dt.year, dt.month, dt.day, dt.hour, dt.minute, dt.second>>
RECURSIVE TupleLeq(_, _)
TupleLeq(a, b) ==
    IF a = <<>> THEN TRUE
    ELSE IF Head(a) # Head(b) THEN Head(a) < Head(b)
    ELSE TupleLeq(Tail(a), Tail(b))

\* C21: with no remote write, the clock taken as the tuple (year, month, day,
\* hour, minute, second) does not decrease over a call of updateInternalTime,
\* whatever the times of the calls.
C21_ClockNeverDecreases ==
    [][TickStep
         => TupleLeq(ClockTuple(currentDateTime),
                     ClockTuple(currentDateTime'))]_vars

\* The same, for calls that keep second + elapsedWhole below 256.
C21_NeverDecreasesWithoutOverflow ==
    [][(TickStep /\ currentDateTime.second + ElapsedWhole < 256)
         => TupleLeq(ClockTuple(currentDateTime),
                     ClockTuple(currentDateTime'))]_vars

----------------------------------------------------------------------------
(* Properties of the time base, checked under Spec.                        *)

\* A callback that calls updateInternalTime.
UpdateStep ==
    \/ lastRun' \in {"updateInternalTimeCallback", "printSystemTimeCallback"}
    \/ lastRun' = "updateBleDataCallback" /\ centralConnected

\* C22: a call of updateInternalTime made less than 1000 ms after
\* lastTimeUpdateMillis changes neither the clock nor lastTimeUpdateMillis;
\* any other call adds elapsedWhole * 1000 to lastTimeUpdateMillis.  After
\* every call, millis() - lastTimeUpdateMillis is in 0..999 and
\* lastTimeUpdateMillis is congruent modulo 1000 to what it was.
C22_RemainderKept ==
    [][UpdateStep
         => /\ IF millisNow - lastTimeUpdateMillis < 1000
               THEN UNCHANGED clock
               ELSE lastTimeUpdateMillis'
                      = lastTimeUpdateMillis + ElapsedWhole * 1000
            /\ millisNow' - lastTimeUpdateMillis' \in 0..999
            /\ lastTimeUpdateMillis' % 1000 = lastTimeUpdateMillis % 1000]_vars

\* C22 witness: tUpdateTime ran 1400 ms after boot; one second was applied
\* and 400 ms are left for the next call.
C22_Witness ==
    /\ lastRun = "updateInternalTimeCallback"
    /\ millisNow = BootMillis + 1400
    /\ lastTimeUpdateMillis = BootMillis + 1000
    /\ currentDateTime = DateTime(2024, 1, 1, 0, 0, 1, 1)

\* C23: a disconnect event handled while centralConnected is false leaves
\* centralConnected, ledState, the LED output, the enablement of tLedBlink
\* and the advertising state as they were.
C23_DuplicateDisconnectIgnored ==
    [][(lastRun' = "blePeripheralDisconnectHandler" /\ ~centralConnected)
         => UNCHANGED <<centralConnected, ledState, ledPin, tLedBlinkEnabled,
                        advertising>>]_vars

\* The part of C23 that the handler keeps: the link state, the enablement of
\* tLedBlink and the advertising state.
C23_DuplicateDisconnectKeepsLink ==
    [][(lastRun' = "blePeripheralDisconnectHandler" /\ ~centralConnected)
         => UNCHANGED <<centralConnected, tLedBlinkEnabled,
                        advertising>>]_vars

----------------------------------------------------------------------------
(* The tick under fair scheduling.  tUpdateTime is created enabled with     *)
(* TASK_FOREVER (line 404) and nothing disables it, so the scheduler keeps  *)
(* running it: the callback is weakly fair.                                 *)

\* The events that could stand in the way of the tick: time passing, a
\* remote write, connect and disconnect events, a failed restart of
\* advertising.
TickDeltas == {1000, 200000}

NextTick ==
    \/ \E d \in TickDeltas : AdvanceMillis(d)
    \/ updateInternalTimeCallback
    \/ currentTimeWrittenHandler("c1", Bytes(2024, 12, 31, 23, 59, 59, 7))
    \/ blePeripheralConnectHandler("c1")
    \/ \E ok \in BOOLEAN : blePeripheralDisconnectHandler("c1", ok)

FairSpec ==
    Init /\ [][NextTick]_vars /\ WF_vars(updateInternalTimeCallback)

\* At least one whole second has elapsed since lastTimeUpdateMillis.
SecondsPending == ulongDiffBy1000(millisNow, lastTimeUpdateMillis)[1] >= 1

----------------------------------------------------------------------------
(* The polling revision of the sketch (lines 816-1150): its clock.  The     *)
(* revision has no write handler; its variable lastTimeUpdate is held in   *)
(* lastTimeUpdateMillis.                                                    *)

\* Lines 915-928: the month length computed inside updateInternalTime.
daysInMonthPolling(year, month) ==
    IF month = 4 \/ month = 6 \/ month = 9 \/ month = 11
    THEN 30
    ELSE IF month = 2
         THEN IF (year % 4 = 0 /\ year % 100 # 0) \/ (year % 400 = 0)
              THEN 29 ELSE 28
         ELSE 31

\* Lines 930-940: past the end of the month the day becomes 1.
carryMonthPolling(dt) ==
    IF dt.day > daysInMonthPolling(dt.year, dt.month)
    THEN IF dt.month + 1 > 12
         THEN [dt EXCEPT !.day = 1, !.month = 1, !.year = U16(dt.year + 1)]
         ELSE [dt EXCEPT !.day = 1, !.month = dt.month + 1]
    ELSE dt

\* Line 912: the day of week, computed from the hour that line 909 has
\* already reduced modulo 24.
dayOfWeekPolling(reduced) ==
    (((reduced.dayOfWeek - 1) + (reduced.hour \div 24)) % 7) + 1

\* Lines 906-941.
carryDaysPolling(dt) ==
    IF dt.hour >= 24
    THEN LET reduced == [dt EXCEPT !.day = U8(dt.day + dt.hour \div 24),
                                   !.hour = dt.hour % 24] IN
         carryMonthPolling(
             [reduced EXCEPT !.dayOfWeek = dayOfWeekPolling(reduced)])
    ELSE dt

\* Lines 896-943.
carrySecondsPolling(dt) ==
    IF dt.second >= 60
    THEN LET m == [dt EXCEPT !.minute = U8(dt.minute + dt.second \div 60),
                             !.second = dt.second % 60] IN
         IF m.minute >= 60
         THEN carryDaysPolling(
                  [m EXCEPT !.hour = U8(m.hour + m.minute \div 60),
                            !.minute = m.minute % 60])
         ELSE m
    ELSE dt

\* void updateInternalTime() of lines 880-945.
updateInternalTimePolling(dt, last, now) ==
    LET elapsed == ulongDiffBy1000(now, last) IN
    IF elapsed[1] >= 1
    THEN [dt   |-> carrySecondsPolling(
                       [dt EXCEPT !.second = U8(dt.second + elapsed[1])]),
          last |-> now - elapsed[2]]
    ELSE [dt |-> dt, last |-> last]

\* void updateTimeCallback() (lines 1024-1039), task tUpdateTime.
updateTimeCallback ==
    LET r == updateInternalTimePolling(currentDateTime, lastTimeUpdateMillis,
                                       millisNow) IN
    /\ currentDateTime' = r.dt
    /\ lastTimeUpdateMillis' = r.last
    /\ lastRun' = "updateTimeCallback"
    /\ calls' = <<Call("Current Time: ",
                       <<r.dt.year, r.dt.month, r.dt.day, r.dt.hour,
                         r.dt.minute, r.dt.second>>,
                       centralConnected, connectedCentral)>>
    /\ UNCHANGED <<link, millisNow>>

\* Line 850, and later dates and times the clock reaches from it second by
\* second; the day of week is the one of line 850.
EpochPolling == DateTime(2023, 10, 10, 12, 0, 0, 2)
PollingYears == {2023, 2024}
PollingMonths == {2, 10, 11, 12}
PollingDays == {10, 28, 29, 30, 31}
PollingTimes == {<<12, 0, 0>>, <<23, 59, 58>>, <<23, 59, 59>>}

InitPolling ==
    /\ \E y \in PollingYears, mo \in PollingMonths, d \in PollingDays,
          t \in PollingTimes :
          /\ y = 2023 => mo >= 10
          /\ d <= daysInMonthPolling(y, mo)
          /\ currentDateTime
               = DateTime(y, mo, d, t[1], t[2], t[3], EpochPolling.dayOfWeek)
    /\ lastTimeUpdateMillis = BootMillis
    /\ millisNow = BootMillis
    /\ centralConnected = FALSE
    /\ connectedCentral = NoDevice
    /\ ledState = FALSE
    /\ ledPin = FALSE
    /\ tLedBlinkEnabled = TRUE
    /\ advertising = FALSE
    /\ lastRun = "setup"
    /\ calls = <<>>

NextPolling ==
    \/ \E d \in Deltas : AdvanceMillis(d)
    \/ updateTimeCallback

PollingSpec == InitPolling /\ [][NextPolling]_vars

\* The calendar date of the clock.
Date(dt) == <<dt.year, dt.month, dt.day>>

\* C25: in the polling revision, a call that carries hours into days, and so
\* moves the date on by one day, moves the day of week on by one day as
\* well: newDOW = ((oldDOW - 1 + 1) mod 7) + 1.
C25_DayOfWeekFollowsDayCarry ==
    [][(lastRun' = "updateTimeCallback"
          /\ Date(currentDateTime') # Date(currentDateTime))
         => currentDateTime'.dayOfWeek
              = ((currentDateTime.dayOfWeek - 1 + 1) % 7) + 1]_vars

----------------------------------------------------------------------------
(* The link handlers and the clock, checked under Spec.                    *)

\* C26: a connect or disconnect event, whether it changes the link state or
\* is ignored, leaves the seven fields of currentDateTime and
\* lastTimeUpdateMillis as they were; the Current Time value pushed on
\* connect decodes to the clock as it stood before the event, pending
\* seconds not applied.
C26_LinkHandlersKeepClock ==
    [][lastRun' \in {"blePeripheralConnectHandler",
                     "blePeripheralDisconnectHandler"}
         => /\ UNCHANGED clock
            /\ HasCall(calls', "currentTimeChar.writeValue")
                 => parseTime(PushedValue(calls')) = currentDateTime]_vars

\* C26 witness: a central connected while more than a second was pending;
\* the snapshot pushed is the clock of the epoch, not advanced.
C26_Witness ==
    /\ lastRun = "blePeripheralConnectHandler"
    /\ centralConnected
    /\ SecondsPending
    /\ currentDateTime = Epoch
    /\ HasCall(calls, "currentTimeChar.writeValue")
    /\ parseTime(PushedValue(calls)) = Epoch

----------------------------------------------------------------------------
(* The calendar around the wrap of millis(): the counter starts WrapStart   *)
(* below 2^32, held as the negative number -WrapStart, and passes to 0.    *)

WrapStart == 1400
WrapDays == {<<2, 28>>, <<2, 29>>, <<6, 15>>, <<12, 31>>}
WrapTimes == {<<12, 0, 0>>, <<23, 59, 58>>, <<23, 59, 59>>}

InitWrap ==
    /\ \E md \in WrapDays, t \in WrapTimes, dow \in CalendarDaysOfWeek :
          currentDateTime = DateTime(2024, md[1], md[2], t[1], t[2], t[3], dow)
    /\ lastTimeUpdateMillis = -WrapStart
    /\ millisNow = -WrapStart
    /\ centralConnected = FALSE
    /\ connectedCentral = NoDevice
    /\ ledState = FALSE
    /\ ledPin = FALSE
    /\ tLedBlinkEnabled = TRUE
    /\ advertising = TRUE
    /\ lastRun = "setup"
    /\ calls = <<>>

WrapSpec == InitWrap /\ [][NextCalendar]_vars

\* C27: when millis() has wrapped from 2^32-1 to 0 since
\* lastTimeUpdateMillis (which is then held as a negative number while
\* millis() is not) and less than 60 seconds have truly elapsed, a call of
\* updateInternalTime adds floor(elapsed / 1000) seconds to the clock and
\* leaves lastTimeUpdateMillis at millis() minus the remainder, as without
\* a wrap.
C27_WrapIsTransparent ==
    [][(TickStep /\ lastTimeUpdateMillis < 0 /\ millisNow >= 0
          /\ millisNow - lastTimeUpdateMillis < 60000
          /\ ValidDateTime(currentDateTime))
         => /\ currentDateTime'
                 = AddSeconds(currentDateTime,
                              (millisNow - lastTimeUpdateMillis) \div 1000)
            /\ lastTimeUpdateMillis'
                 = millisNow - ((millisNow - lastTimeUpdateMillis) % 1000)]_vars

\* C27 witness: 2400 ms after 2024-02-29 23:59:58, with the wrap in
\* between, two seconds have been applied and 400 ms are kept.
C27_Witness ==
    /\ lastRun = "updateInternalTimeCallback"
    /\ millisNow = 2400 - WrapStart
    /\ millisNow >= 0
    /\ lastTimeUpdateMillis = 2000 - WrapStart
    /\ currentDateTime = DateTime(2024, 3, 1, 0, 0, 0, 1)

----------------------------------------------------------------------------
(* Recovery from a written day beyond the end of the month, checked under  *)
(* Spec.                                                                    *)

\* A callback or handler run other than an accepted write.  Of these only a
\* call of updateInternalTime that carries hours into days changes the day
\* of week.
NoWriteStep == ~AcceptedWriteStep
DayCarryStep ==
    NoWriteStep /\ currentDateTime'.dayOfWeek # currentDateTime.dayOfWeek

FollowingMonth(mo) == IF mo = 12 THEN 1 ELSE mo + 1

\* C28: while day > daysInMonth(year, month), as an accepted write can leave
\* it, every run that carries no day keeps the written year, month and day;
\* the first call of updateInternalTime that carries a day moves the clock
\* into the following month with day <= daysInMonth(year, month); and from
\* then on every run other than an accepted write keeps
\* day <= daysInMonth(year, month).
C28_DayRecoversAtDayCarry ==
    [][NoWriteStep
         => /\ (~DayWithinMonth(currentDateTime) /\ ~DayCarryStep)
                 => Date(currentDateTime') = Date(currentDateTime)
            /\ (~DayWithinMonth(currentDateTime) /\ DayCarryStep)
                 => /\ DayWithinMonth(currentDateTime')
                    /\ currentDateTime'.month
                         = FollowingMonth(currentDateTime.month)
            /\ DayWithinMonth(currentDateTime)
                 => DayWithinMonth(currentDateTime')]_vars

\* C28 witness: the written 2024-04-31 23:59:59 has been carried into May by
\* tUpdateTime.
C28_Witness ==
    /\ lastRun = "updateInternalTimeCallback"
    /\ currentDateTime = DateTime(2024, 5, 2, 0, 0, 0, 4)

====
